---- MODULE Spec2Model ----
(***************************************************************************)
(* A model of the stone-prover-sdk core: the FRI parameter derivation of   *)
(* src/fri.rs and the bootloader task assembly of src/cairo_vm.rs.         *)
(*                                                                         *)
(* u32 values that can exceed 2^31 - 1 (the step count, a wrapped          *)
(* difference) are kept as two 16-bit limbs [hi, lo]; the small ones       *)
(* (logarithms, step values, the last layer degree bound) are integers.    *)
(***************************************************************************)
EXTENDS Integers, Sequences, FiniteSets, TLC

VARIABLES
    overflow_checks,              \* build profile: TRUE = arithmetic overflow panics, FALSE = it wraps
    pc,                           \* position of the call in progress, "idle" between calls
    last_op,                      \* the operation whose result the state holds
    nb_steps,                     \* generate_prover_parameters: argument (u32)
    verifier,                     \* generate_prover_parameters: argument
    nb_steps_log,                 \* compute_fri_parameters: local
    last_layer_degree_bound,      \* compute_fri_parameters: local
    last_layer_degree_bound_log,  \* compute_fri_parameters: local
    max_step_value,               \* compute_fri_parameters: local
    steps_ret,                    \* what compute_fri_steps returned to the policy
    prover_parameters,            \* outcome of generate_prover_parameters
    programs,                     \* make_bootloader_tasks: argument
    pies,                         \* make_bootloader_tasks: argument
    tasks,                        \* outcome of make_bootloader_tasks
    conv_layout,                  \* Layout::to_string: argument
    conv_str,                     \* the string to_string produced or from_str was given
    conv_ret,                     \* outcome of Layout::from_str / Verifier::from_str
    bootloader_args,              \* run_bootloader_in_proof_mode: arguments
    cairo_run_config,             \* cairo_run: argument
    variables,                    \* cairo_run: argument
    cairo_runner,                 \* the run handle: cairo_run's local, extraction's argument
    calls,                        \* the calls made on the VM library so far, in order
    run_ret,                      \* outcome of cairo_run
    extract_ret,                  \* outcome of extract_execution_artifacts
    bootloader_ret                \* outcome of run_bootloader_in_proof_mode

vars == <<overflow_checks, pc, last_op, nb_steps, verifier, nb_steps_log,
          last_layer_degree_bound, last_layer_degree_bound_log, max_step_value,
          steps_ret, prover_parameters, programs, pies, tasks,
          conv_layout, conv_str, conv_ret,
          bootloader_args, cairo_run_config, variables, cairo_runner, calls,
          run_ret, extract_ret, bootloader_ret>>

friLocals == <<nb_steps_log, last_layer_degree_bound, last_layer_degree_bound_log,
               max_step_value, steps_ret>>
taskVars == <<programs, pies, tasks>>
convVars == <<conv_layout, conv_str, conv_ret>>
runArgs == <<bootloader_args, cairo_run_config, variables>>
runVars == <<runArgs, cairo_runner, calls, run_ret, extract_ret, bootloader_ret>>
pureVars == <<overflow_checks, nb_steps, verifier, friLocals, prover_parameters,
              taskVars, convVars>>

----------------------------------------------------------------------------
(* Bounds of the model.                                                    *)

\* Every step count 0..MaxSmallSteps is an input, next to the neighbours of
\* every power of two and the values the tests of fri.rs use.
MaxSmallSteps == 1100
\* Longest list of program buffers, and of PIE buffers, handed to make_bootloader_tasks.
MaxBuffers == 2
\* Longest list of tasks handed to run_bootloader_in_proof_mode.
MaxTasks == 2

----------------------------------------------------------------------------
(* u32 arithmetic.                                                         *)

U32Bits == 32
LimbBits == 16
Limb == 2^LimbBits

ToU32(n) == [hi |-> n \div Limb, lo |-> n % Limb]
U32Max == [hi |-> Limb - 1, lo |-> Limb - 1]
U32IsZero(x) == x.hi = 0 /\ x.lo = 0

RECURSIVE FloorLog2(_)
FloorLog2(n) == IF n <= 1 THEN 0 ELSE 1 + FloorLog2(n \div 2)

RECURSIVE CountOnes(_)
CountOnes(n) == IF n = 0 THEN 0 ELSE (n % 2) + CountOnes(n \div 2)

\* u32::ilog2: floor(log2(x)), defined for x /= 0 (it panics on 0 in every build).
ilog2(x) == IF x.hi > 0 THEN LimbBits + FloorLog2(x.hi) ELSE FloorLog2(x.lo)

\* u32::is_power_of_two: exactly one bit set.
is_power_of_two(x) == CountOnes(x.hi) + CountOnes(x.lo) = 1

\* a - b on u32 operands below 2^31: the difference, or on a < b a panic when
\* overflow checks are on and the difference modulo 2^32 when they are off.
u32_sub(a, b, checks) ==
    IF a >= b THEN [tag |-> "ok", val |-> ToU32(a - b)]
    ELSE IF checks THEN [tag |-> "panic"]
    ELSE [tag |-> "ok", val |-> [hi |-> Limb - 1, lo |-> Limb - (b - a)]]

\* x / d and x % d for a u32 x and 2 <= d: the quotient is below 2^31.
u32_div(x, d) == (x.hi \div d) * Limb + (((x.hi % d) * Limb + x.lo) \div d)
u32_rem(x, d) == ((x.hi % d) * Limb + x.lo) % d

----------------------------------------------------------------------------
(* Vec<u32>, run-length encoded: a sequence of runs [elem, count], count    *)
(* >= 1, standing for count copies of elem. The list a wrapped sum yields  *)
(* has up to 2^31 - 1 entries.                                             *)

vec_from_elem(elem, n) == IF n = 0 THEN <<>> ELSE <<[elem |-> elem, count |-> n]>>
vec_push(vec, elem) == Append(vec, [elem |-> elem, count |-> 1])
vec_extend(vec, other) == vec \o other

----------------------------------------------------------------------------
(* src/fri.rs                                                              *)

DEFAULT_LAST_LAYER_DEGREE_BOUND == 64
DEFAULT_N_QUERIES == 18
DEFAULT_PROOF_OF_WORK_BITS == 24

Panic == [tag |-> "panic"]
NoResult == [tag |-> "none"]

\* Mutant of ceil_log2: the increment for a non power of two is forgotten.
ceil_log2_floor(x) == ilog2(x)

ceil_log2(x) ==
    LET log == ilog2(x)
    IN  IF ~is_power_of_two(x) THEN log + 1 ELSE log

\* Mutant of compute_fri_steps: the remainder is never pushed.
compute_fri_steps_no_remainder(nb_log, lldb_log, max_step, checks) ==
    LET sum_of_fri_steps == u32_sub(nb_log + 4, lldb_log, checks)
    IN  IF sum_of_fri_steps.tag = "panic" THEN Panic
        ELSE [tag |-> "ok",
              val |-> vec_from_elem(max_step, u32_div(sum_of_fri_steps.val, max_step))]

compute_fri_steps(nb_log, lldb_log, max_step, checks) ==
    LET sum_of_fri_steps == u32_sub(nb_log + 4, lldb_log, checks)
    IN  IF sum_of_fri_steps.tag = "panic" THEN Panic
        ELSE LET quotient == u32_div(sum_of_fri_steps.val, max_step)
                 remainder == u32_rem(sum_of_fri_steps.val, max_step)
                 fri_steps == vec_from_elem(max_step, quotient)
             IN  [tag |-> "ok",
                  val |-> IF remainder > 0 THEN vec_push(fri_steps, remainder)
                          ELSE fri_steps]


\* Mutant of l1_last_layer_degree_bound: the bound is never halved.
l1_last_layer_degree_bound_no_halving(nb_log, checks) ==
    LET lldb == DEFAULT_LAST_LAYER_DEGREE_BOUND
        lldb_log == ceil_log2(ToU32(lldb))
        diff == u32_sub(nb_log, lldb_log, checks)
    IN  IF diff.tag = "panic" THEN Panic
        ELSE [tag |-> "ok", lldb |-> lldb, lldb_log |-> lldb_log]

\* L1VerifierFriComputer: the block that settles the last layer degree bound.
l1_last_layer_degree_bound(nb_log, checks) ==
    LET lldb == DEFAULT_LAST_LAYER_DEGREE_BOUND
        lldb_log == ceil_log2(ToU32(lldb))
        diff == u32_sub(nb_log, lldb_log, checks)
    IN  IF diff.tag = "panic" THEN Panic
        ELSE IF u32_rem(diff.val, 2) # 0
             THEN [tag |-> "ok", lldb |-> lldb \div 2, lldb_log |-> lldb_log - 1]
             ELSE [tag |-> "ok", lldb |-> lldb, lldb_log |-> lldb_log]

\* Mutant of default_fri_parameters: the default policy prepends a step 0 as the L1 policy does.
default_fri_parameters_leading_zero(fri_steps, lldb) ==
    [fri_step_list |-> vec_extend(vec_from_elem(0, 1), fri_steps),
     last_layer_degree_bound |-> lldb,
     n_queries |-> DEFAULT_N_QUERIES,
     proof_of_work_bits |-> DEFAULT_PROOF_OF_WORK_BITS]

\* Mutant of l1_fri_parameters: the leading step 0 is missing.
l1_fri_parameters_no_leading_zero(steps, lldb) ==
    [fri_step_list |-> steps,
     last_layer_degree_bound |-> lldb,
     n_queries |-> DEFAULT_N_QUERIES,
     proof_of_work_bits |-> DEFAULT_PROOF_OF_WORK_BITS]

\* The FriParameters each policy returns, given what compute_fri_steps returned.
default_fri_parameters(fri_steps, lldb) ==
    [fri_step_list |-> fri_steps,
     last_layer_degree_bound |-> lldb,
     n_queries |-> DEFAULT_N_QUERIES,
     proof_of_work_bits |-> DEFAULT_PROOF_OF_WORK_BITS]

l1_fri_parameters(steps, lldb) ==
    LET fri_steps == vec_extend(vec_from_elem(0, 1), steps)
    IN  [fri_step_list |-> fri_steps,
         last_layer_degree_bound |-> lldb,
         n_queries |-> DEFAULT_N_QUERIES,
         proof_of_work_bits |-> DEFAULT_PROOF_OF_WORK_BITS]

\* Mutant of fri_computer: every verifier gets the default policy.
fri_computer_always_default(v) == "DefaultFriComputer"

\* generate_prover_parameters: the policy the match selects.
fri_computer(v) == IF v = "L1" THEN "L1VerifierFriComputer" ELSE "DefaultFriComputer"

\* generate_prover_parameters: the value it wraps the FriParameters in.
prover_parameters_of(fri_parameters) ==
    [field |-> "PrimeField0",
     stark |-> [fri |-> fri_parameters, log_n_cosets |-> 4],
     use_extension_field |-> FALSE]

----------------------------------------------------------------------------
(* src/cairo_vm.rs: make_bootloader_tasks                                  *)

\* A byte buffer is known by what it holds: a compiled program, a PIE
\* archive, or bytes that are neither; two well-formed buffers of each kind
\* are told apart by the image they hold.
Buffers ==
    {[content |-> c, id |-> i] : c \in {"program", "pie"}, i \in {"a", "b"}}
        \cup {[content |-> "garbage", id |-> "none"]}

Program_from_bytes(bytes, entrypoint) ==
    IF bytes.content = "program"
    THEN [tag |-> "ok", val |-> [image |-> bytes.id, entrypoint |-> entrypoint]]
    ELSE [tag |-> "err", err |-> "ProgramError"]

CairoPie_from_bytes(bytes) ==
    IF bytes.content = "pie"
    THEN [tag |-> "ok", val |-> [image |-> bytes.id]]
    ELSE [tag |-> "err", err |-> "io::Error"]

program_task(program_bytes) ==
    LET program == Program_from_bytes(program_bytes, "main")
    IN  IF program.tag = "ok"
        THEN [tag |-> "ok", val |-> [task |-> [variant |-> "Program", payload |-> program.val]]]
        ELSE [tag |-> "err", err |-> [variant |-> "Program", source |-> program.err]]

cairo_pie_task(pie_bytes) ==
    LET pie == CairoPie_from_bytes(pie_bytes)
    IN  IF pie.tag = "ok"
        THEN [tag |-> "ok", val |-> [task |-> [variant |-> "Pie", payload |-> pie.val]]]
        ELSE [tag |-> "err", err |-> [variant |-> "Pie", source |-> pie.err]]

\* Iterator::collect into Result<Vec<_>, _>: the items in order up to the
\* first Err, which is returned alone; Ok of all the values when there is none.
RECURSIVE collect_from(_, _)
collect_from(results, acc) ==
    IF results = <<>> THEN [tag |-> "ok", val |-> acc]
    ELSE IF Head(results).tag = "err" THEN Head(results)
    ELSE collect_from(Tail(results), Append(acc, Head(results).val))

\* Mutant of collect: the items that failed are skipped (a filter_map).
collect_skip_errors(results) ==
    LET kept == SelectSeq(results, LAMBDA r : r.tag = "ok")
    IN  [tag |-> "ok", val |-> [i \in 1..Len(kept) |-> kept[i].val]]

collect(results) == collect_from(results, <<>>)

\* Mutant of make_bootloader_tasks: the PIE tasks are chained before the program tasks.
make_bootloader_tasks_pies_first(progs, ps) ==
    LET program_tasks == [i \in 1..Len(progs) |-> program_task(progs[i])]
        cairo_pie_tasks == [j \in 1..Len(ps) |-> cairo_pie_task(ps[j])]
    IN  collect(cairo_pie_tasks \o program_tasks)

make_bootloader_tasks(progs, ps) ==
    LET program_tasks == [i \in 1..Len(progs) |-> program_task(progs[i])]
        cairo_pie_tasks == [j \in 1..Len(ps) |-> cairo_pie_task(ps[j])]
    IN  collect(program_tasks \o cairo_pie_tasks)

----------------------------------------------------------------------------
(* src/cairo_vm.rs: cairo_run, extract_execution_artifacts and             *)
(* run_bootloader_in_proof_mode. The calls into the VM library are steps   *)
(* whose outcome, where their type is a Result, is the library's to        *)
(* choose.                                                                 *)

None == [tag |-> "None"]
Some(x) == [tag |-> "Some", val |-> x]
unwrap_or(opt, default) == IF opt.tag = "Some" THEN opt.val ELSE default

Ok(v) == [tag |-> "ok", val |-> v]
Err(e) == [tag |-> "err", err |-> e]

\* Mutant of secure_run: the security check is on unless switched off.
secure_run_default_on(config) == unwrap_or(config.secure_run, TRUE)

\* cairo_run: let secure_run.
secure_run(config) == unwrap_or(config.secure_run, ~config.proof_mode)

\* CairoRunner::new(program, layout, proof_mode, trace_enabled), when it succeeds.
CairoRunner_new(config) ==
    [tag |-> "runner",
     layout |-> config.layout,
     proof_mode |-> config.proof_mode,
     trace_enabled |-> config.trace_enabled,
     exec_scopes |-> {},
     relocated_trace |-> None]

\* exec_scopes.insert_box(key, value) for every entry of the map: an entry
\* takes the place of one with the same key.
insert_variables(runner, map) ==
    [runner EXCEPT !.exec_scopes =
        {e \in @ : \A v \in map : v.key # e.key} \cup map]

\* cairo_run: the phase after read_return_values.
after_read_return_values(config) ==
    IF config.proof_mode THEN "finalize_segments"
    ELSE IF secure_run(config) THEN "verify_secure_runner"
    ELSE "relocate"

\* cairo_run: the phase after finalize_segments.
after_finalize_segments(config) ==
    IF secure_run(config) THEN "verify_secure_runner" ELSE "relocate"

\* relocate(relocate_mem), when it succeeds: the trace is relocated when one
\* was recorded.
relocate(runner) ==
    [runner EXCEPT !.relocated_trace =
        IF runner.trace_enabled THEN Some("trace") ELSE None]

\* Mutant of relocated_trace: a missing trace is taken for an empty one.
relocated_trace_or_empty(runner) ==
    Ok(unwrap_or(runner.relocated_trace, "empty trace"))

\* extract_execution_artifacts: let trace.
relocated_trace(runner) ==
    IF runner.relocated_trace.tag = "Some"
    THEN Ok(runner.relocated_trace.val)
    ELSE Err([variant |-> "GenerateTrace", source |-> [variant |-> "TraceNotEnabled"]])

\* Mutant of ExecutionError_of: a failure of the trace encoding is reported
\* as one of the memory encoding.
ExecutionError_of_one_encode_variant(call) ==
    CASE call = "write_encoded_memory" -> "EncodeMemory"
      [] call = "write_encoded_trace" -> "EncodeMemory"
      [] call = "get_air_public_input" -> "GeneratePublicInput"
      [] call = "PublicInput::try_from" -> "SerializePublicInput"

\* The variant of ExecutionError the failure of a call of
\* extract_execution_artifacts is turned into, by map_err or by ?.
ExecutionError_of(call) ==
    CASE call = "write_encoded_memory" -> "EncodeMemory"
      [] call = "write_encoded_trace" -> "EncodeTrace"
      [] call = "get_air_public_input" -> "GeneratePublicInput"
      [] call = "PublicInput::try_from" -> "SerializePublicInput"

\* extract_execution_artifacts: the value of its Ok.
ExecutionArtifacts(runner) ==
    [public_input |-> "PublicInput::try_from(get_air_public_input())",
     private_input |-> "get_air_private_input()",
     memory |-> "memory_writer.buf",
     trace |-> "trace_writer.buf"]

\* run_bootloader_in_proof_mode: let cairo_run_config.
bootloader_run_config(layout, allow_missing) ==
    [tag |-> "config",
     entrypoint |-> "main",
     trace_enabled |-> TRUE,
     relocate_mem |-> TRUE,
     layout |-> unwrap_or(layout, "StarknetWithKeccak"),
     proof_mode |-> TRUE,
     secure_run |-> None,
     disable_trace_padding |-> FALSE,
     allow_missing_builtins |-> allow_missing]

\* vec![PackedOutput::Plain(vec![]); n_tasks]
packed_outputs(n_tasks) == [i \in 1..n_tasks |-> [tag |-> "Plain", val |-> <<>>]]

\* Mutant of bootloader_input: no placeholder is made.
bootloader_input_no_placeholders(task_list, fact_topologies_path) ==
    [simple_bootloader_input |->
        [fact_topologies_path |-> fact_topologies_path,
         single_page |-> FALSE,
         tasks |-> task_list],
     bootloader_config |->
        [simple_bootloader_program_hash |-> 0,
         supported_cairo_verifier_program_hashes |-> <<>>],
     packed_outputs |-> <<>>]

\* run_bootloader_in_proof_mode: let bootloader_input.
bootloader_input(task_list, fact_topologies_path) ==
    [simple_bootloader_input |->
        [fact_topologies_path |-> fact_topologies_path,
         single_page |-> FALSE,
         tasks |-> task_list],
     bootloader_config |->
        [simple_bootloader_program_hash |-> 0,
         supported_cairo_verifier_program_hashes |-> <<>>],
     packed_outputs |-> packed_outputs(Len(task_list))]

\* run_bootloader_in_proof_mode: let variables.
bootloader_variables(task_list, fact_topologies_path) ==
    {[key |-> "bootloader_input",
      value |-> bootloader_input(task_list, fact_topologies_path)],
     [key |-> "bootloader_program", value |-> [program |-> "bootloader.clone()"]]}

\* Mutant of after_cairo_run: a failed run is passed over and extraction follows.
after_cairo_run_ignore_failure(ret) ==
    [pc |-> "extract_execution_artifacts", ret |-> NoResult]

\* run_bootloader_in_proof_mode: the ? on cairo_run's result. A failure is
\* returned as RunFailed; a run handle goes on to extraction.
after_cairo_run(ret) ==
    IF ret.tag = "err"
    THEN [pc |-> "idle", ret |-> Err([variant |-> "RunFailed", source |-> ret.err])]
    ELSE [pc |-> "extract_execution_artifacts", ret |-> NoResult]

----------------------------------------------------------------------------
(* src/models.rs: Layout and Verifier as strings                           *)

Layouts ==
    {"Plain", "Small", "Dex", "Recursive", "Starknet", "RecursiveLargeOutput",
     "AllCairo", "AllSolidity", "StarknetWithKeccak"}

\* Mutant of layout_serde_rename: StarknetWithKeccak carries the name of Starknet.
layout_serde_rename_alias(l) ==
    CASE l = "Plain" -> "plain"
      [] l = "Small" -> "small"
      [] l = "Dex" -> "dex"
      [] l = "Recursive" -> "recursive"
      [] l = "Starknet" -> "starknet"
      [] l = "RecursiveLargeOutput" -> "recursive_large_output"
      [] l = "AllCairo" -> "all_cairo"
      [] l = "AllSolidity" -> "all_solidity"
      [] l = "StarknetWithKeccak" -> "starknet"

\* The #[serde(rename = ...)] attribute of each variant.
layout_serde_rename(l) ==
    CASE l = "Plain" -> "plain"
      [] l = "Small" -> "small"
      [] l = "Dex" -> "dex"
      [] l = "Recursive" -> "recursive"
      [] l = "Starknet" -> "starknet"
      [] l = "RecursiveLargeOutput" -> "recursive_large_output"
      [] l = "AllCairo" -> "all_cairo"
      [] l = "AllSolidity" -> "all_solidity"
      [] l = "StarknetWithKeccak" -> "starknet_with_keccak"

\* Display for Layout: the string serde_json::to_value gives the variant.
Layout_to_string(l) == layout_serde_rename(l)

\* FromStr for Layout: serde_json::from_value of Value::String(s), which
\* accepts the string that is the name of a variant and nothing else.
Layout_from_str(s) ==
    IF \E l \in Layouts : layout_serde_rename(l) = s
    THEN [tag |-> "ok", val |-> CHOOSE l \in Layouts : layout_serde_rename(l) = s]
    ELSE [tag |-> "err", err |-> "unknown variant"]

\* Mutant of Verifier_from_str: the match ignores the case of the string.
Verifier_from_str_ignore_case(s) ==
    CASE s \in {"stone", "Stone", "STONE"} -> [tag |-> "ok", val |-> "Stone"]
      [] s \in {"l1", "L1"} -> [tag |-> "ok", val |-> "L1"]
      [] OTHER -> [tag |-> "err", err |-> [msg |-> "unknown verifier", other |-> s]]

\* FromStr for Verifier.
Verifier_from_str(s) ==
    CASE s = "stone" -> [tag |-> "ok", val |-> "Stone"]
      [] s = "l1" -> [tag |-> "ok", val |-> "L1"]
      [] OTHER -> [tag |-> "err", err |-> [msg |-> "unknown verifier", other |-> s]]

----------------------------------------------------------------------------
(* Inputs.                                                                 *)

\* The strings handed to from_str: every name of a layout and of a verifier,
\* and strings that differ from one by case, by a separator, by white space,
\* or that are a part of one.
StrInputs ==
    {layout_serde_rename(l) : l \in Layouts}
        \cup {"stone", "l1"}
        \cup {"", "Plain", "PLAIN", "plain ", " plain", "Small", "starknet_with",
              "with_keccak", "starknet-with-keccak", "starknetwithkeccak",
              "StarknetWithKeccak", "recursive_large", "all", "all_", "cairo",
              "Stone", "STONE", "L1", "l1 ", " stone", "l", "l2", "ston", "stones"}


Pow2U32(k) == IF k < LimbBits THEN [hi |-> 0, lo |-> 2^k]
              ELSE [hi |-> 2^(k - LimbBits), lo |-> 0]
U32Pred(x) == IF x.lo > 0 THEN [hi |-> x.hi, lo |-> x.lo - 1]
              ELSE [hi |-> x.hi - 1, lo |-> Limb - 1]
U32Succ(x) == IF x.lo < Limb - 1 THEN [hi |-> x.hi, lo |-> x.lo + 1]
              ELSE [hi |-> x.hi + 1, lo |-> 0]

StepCounts ==
    {ToU32(n) : n \in 0..MaxSmallSteps}
        \cup {ToU32(n) : n \in {768, 1000, 32768, 524288}}
        \cup {Pow2U32(k) : k \in 0..(U32Bits - 1)}
        \cup {U32Pred(Pow2U32(k)) : k \in 0..(U32Bits - 1)}
        \cup {U32Succ(Pow2U32(k)) : k \in 0..(U32Bits - 1)}
        \cup {U32Max}

Verifiers == {"Stone", "L1"}

SeqsUpTo(S, n) == UNION {[1..k -> S] : k \in 0..n}

OptionBools == {None, Some(TRUE), Some(FALSE)}
OptionLayouts == {None} \cup {Some(l) : l \in Layouts}
OptionPaths == {None, Some("fact_topologies.json")}

\* The tasks make_bootloader_tasks makes of well-formed buffers.
TaskSpecs ==
    {program_task(b).val : b \in {x \in Buffers : x.content = "program"}}
        \cup {cairo_pie_task(b).val : b \in {x \in Buffers : x.content = "pie"}}

\* The configurations a caller hands to cairo_run.
CairoRunConfigs ==
    {[tag |-> "config",
      entrypoint |-> "main",
      trace_enabled |-> t,
      relocate_mem |-> r,
      layout |-> "Plain",
      proof_mode |-> p,
      secure_run |-> sr,
      disable_trace_padding |-> FALSE,
      allow_missing_builtins |-> a] :
        t \in BOOLEAN, r \in BOOLEAN, p \in BOOLEAN,
        sr \in OptionBools, a \in OptionBools}

\* The variables a caller hands to cairo_run.
VariableMaps == {{}, {[key |-> "program_input", value |-> [program |-> "input"]]}}

\* The run handles a caller hands to extract_execution_artifacts: of a run
\* with or without trace recording, relocated or not.
RunHandles ==
    {CairoRunner_new(c) : c \in CairoRunConfigs}
        \cup {relocate(CairoRunner_new(c)) : c \in CairoRunConfigs}

----------------------------------------------------------------------------
(* The state machine. The operations are pure functions of their          *)
(* arguments and share no state, so a behaviour is one call: Init is the   *)
(* moment before it, with the build profile chosen.                        *)

Init ==
    /\ overflow_checks \in BOOLEAN
    /\ pc = "idle"
    /\ last_op = "none"
    /\ nb_steps = ToU32(0)
    /\ verifier = "Stone"
    /\ nb_steps_log = 0
    /\ last_layer_degree_bound = 0
    /\ last_layer_degree_bound_log = 0
    /\ max_step_value = 0
    /\ steps_ret = NoResult
    /\ prover_parameters = NoResult
    /\ programs = <<>>
    /\ pies = <<>>
    /\ tasks = NoResult
    /\ conv_layout = "none"
    /\ conv_str = ""
    /\ conv_ret = NoResult
    /\ bootloader_args = NoResult
    /\ cairo_run_config = NoResult
    /\ variables = {}
    /\ cairo_runner = NoResult
    /\ calls = <<>>
    /\ run_ret = NoResult
    /\ extract_ret = NoResult
    /\ bootloader_ret = NoResult

\* No call has been made yet.
NotCalled == pc = "idle" /\ last_op = "none"

\* generate_prover_parameters(nb_steps, verifier) is called and dispatches.
GenerateProverParameters(n, v) ==
    /\ NotCalled
    /\ pc' = fri_computer(v)
    /\ last_op' = "generate_prover_parameters"
    /\ nb_steps' = n
    /\ verifier' = v
    /\ UNCHANGED <<overflow_checks, friLocals, prover_parameters, taskVars, convVars, runVars>>

\* DefaultFriComputer::compute_fri_parameters up to its call of compute_fri_steps.
DefaultComputeFriParameters ==
    /\ pc = "DefaultFriComputer"
    /\ IF U32IsZero(nb_steps)
       THEN /\ pc' = "idle"
            /\ prover_parameters' = Panic
            /\ UNCHANGED friLocals
       ELSE /\ pc' = "compute_fri_steps"
            /\ last_layer_degree_bound' = 64
            /\ nb_steps_log' = ceil_log2(nb_steps)
            /\ last_layer_degree_bound_log' = ceil_log2(ToU32(64))
            /\ max_step_value' = 4
            /\ UNCHANGED <<steps_ret, prover_parameters>>
    /\ UNCHANGED <<overflow_checks, last_op, nb_steps, verifier, taskVars, convVars, runVars>>

\* L1VerifierFriComputer::compute_fri_parameters up to its call of compute_fri_steps.
L1ComputeFriParameters ==
    /\ pc = "L1VerifierFriComputer"
    /\ IF U32IsZero(nb_steps)
       THEN /\ pc' = "idle"
            /\ prover_parameters' = Panic
            /\ UNCHANGED friLocals
       ELSE LET log == ceil_log2(nb_steps)
                last == l1_last_layer_degree_bound(log, overflow_checks)
            IN  /\ max_step_value' = 2
                /\ nb_steps_log' = log
                /\ IF last.tag = "panic"
                   THEN /\ pc' = "idle"
                        /\ prover_parameters' = Panic
                        /\ UNCHANGED <<last_layer_degree_bound, last_layer_degree_bound_log>>
                   ELSE /\ pc' = "compute_fri_steps"
                        /\ last_layer_degree_bound' = last.lldb
                        /\ last_layer_degree_bound_log' = last.lldb_log
                        /\ UNCHANGED prover_parameters
                /\ UNCHANGED steps_ret
    /\ UNCHANGED <<overflow_checks, last_op, nb_steps, verifier, taskVars, convVars, runVars>>

\* The policy's call of compute_fri_steps.
ComputeFriSteps ==
    /\ pc = "compute_fri_steps"
    /\ LET ret == compute_fri_steps(nb_steps_log, last_layer_degree_bound_log,
                                    max_step_value, overflow_checks)
       IN  /\ steps_ret' = ret
           /\ IF ret.tag = "panic"
              THEN pc' = "idle" /\ prover_parameters' = Panic
              ELSE pc' = "return" /\ UNCHANGED prover_parameters
    /\ UNCHANGED <<overflow_checks, last_op, nb_steps, verifier, nb_steps_log,
                   last_layer_degree_bound, last_layer_degree_bound_log,
                   max_step_value, taskVars, convVars, runVars>>

\* The policy returns its FriParameters and generate_prover_parameters wraps them.
ReturnProverParameters ==
    /\ pc = "return"
    /\ pc' = "idle"
    /\ prover_parameters' =
          [tag |-> "ok",
           val |-> prover_parameters_of(
                      IF fri_computer(verifier) = "L1VerifierFriComputer"
                      THEN l1_fri_parameters(steps_ret.val, last_layer_degree_bound)
                      ELSE default_fri_parameters(steps_ret.val, last_layer_degree_bound))]
    /\ UNCHANGED <<overflow_checks, last_op, nb_steps, verifier, friLocals, taskVars, convVars, runVars>>

\* Layout::to_string(layout).
LayoutToString(l) ==
    /\ NotCalled
    /\ last_op' = "Layout::to_string"
    /\ conv_layout' = l
    /\ conv_str' = Layout_to_string(l)
    /\ UNCHANGED <<overflow_checks, pc, nb_steps, verifier, friLocals, prover_parameters,
                   taskVars, conv_ret, runVars>>

\* Layout::from_str(s) of a string of the caller.
LayoutFromStr(s) ==
    /\ NotCalled
    /\ last_op' = "Layout::from_str"
    /\ conv_str' = s
    /\ conv_ret' = Layout_from_str(s)
    /\ UNCHANGED <<overflow_checks, pc, nb_steps, verifier, friLocals, prover_parameters,
                   taskVars, conv_layout, runVars>>

\* Layout::from_str of the string a call of to_string returned.
LayoutFromStrOfToString ==
    /\ pc = "idle"
    /\ last_op = "Layout::to_string"
    /\ last_op' = "Layout::from_str"
    /\ conv_ret' = Layout_from_str(conv_str)
    /\ UNCHANGED <<overflow_checks, pc, nb_steps, verifier, friLocals, prover_parameters,
                   taskVars, conv_layout, conv_str, runVars>>

\* Verifier::from_str(s).
VerifierFromStr(s) ==
    /\ NotCalled
    /\ last_op' = "Verifier::from_str"
    /\ conv_str' = s
    /\ conv_ret' = Verifier_from_str(s)
    /\ UNCHANGED <<overflow_checks, pc, nb_steps, verifier, friLocals, prover_parameters,
                   taskVars, conv_layout, runVars>>

\* cairo_run(program, cairo_run_config, hint_executor, variables) is called.
CairoRun(config, map) ==
    /\ NotCalled
    /\ last_op' = "cairo_run"
    /\ pc' = "CairoRunner::new"
    /\ cairo_run_config' = config
    /\ variables' = map
    /\ UNCHANGED <<pureVars, bootloader_args, cairo_runner, calls, run_ret, extract_ret,
                   bootloader_ret>>

\* run_bootloader_in_proof_mode(bootloader, tasks, layout, allow_missing_builtins,
\* fact_topologies_path) up to its call of cairo_run.
RunBootloaderInProofMode(task_list, layout, allow_missing, fact_topologies_path) ==
    /\ NotCalled
    /\ last_op' = "run_bootloader_in_proof_mode"
    /\ pc' = "CairoRunner::new"
    /\ bootloader_args' = [tag |-> "args", tasks |-> task_list, layout |-> layout,
                           allow_missing_builtins |-> allow_missing,
                           fact_topologies_path |-> fact_topologies_path]
    /\ cairo_run_config' = bootloader_run_config(layout, allow_missing)
    /\ variables' = bootloader_variables(task_list, fact_topologies_path)
    /\ UNCHANGED <<pureVars, cairo_runner, calls, run_ret, extract_ret, bootloader_ret>>

\* extract_execution_artifacts(cairo_runner) is called on a run handle of the caller.
ExtractExecutionArtifactsOf(runner) ==
    /\ NotCalled
    /\ last_op' = "extract_execution_artifacts"
    /\ pc' = "extract_execution_artifacts"
    /\ cairo_runner' = runner
    /\ UNCHANGED <<pureVars, runArgs, calls, run_ret, extract_ret, bootloader_ret>>

\* cairo_run: CairoRunner::new(...)?
CairoRunnerNew ==
    /\ pc = "CairoRunner::new"
    /\ calls' = Append(calls, "CairoRunner::new")
    /\ \E ok \in BOOLEAN :
          IF ok
          THEN /\ cairo_runner' = CairoRunner_new(cairo_run_config)
               /\ pc' = "insert_box"
               /\ UNCHANGED run_ret
          ELSE /\ run_ret' = Err([from |-> "CairoRunner::new"])
               /\ pc' = "cairo_run:return"
               /\ UNCHANGED cairo_runner
    /\ UNCHANGED <<pureVars, last_op, runArgs, extract_ret, bootloader_ret>>

\* cairo_run: the loop that inserts the variables into the scopes of the runner.
InsertVariables ==
    /\ pc = "insert_box"
    /\ calls' = Append(calls, "insert_box")
    /\ cairo_runner' = insert_variables(cairo_runner, variables)
    /\ pc' = "initialize"
    /\ UNCHANGED <<pureVars, last_op, runArgs, run_ret, extract_ret, bootloader_ret>>

\* A call of cairo_run on the runner that is followed by ?: on Ok the next
\* phase, on Err the return of the error.
RunnerCall(call, next) ==
    /\ calls' = Append(calls, call)
    /\ \E ok \in BOOLEAN :
          IF ok
          THEN pc' = next /\ UNCHANGED run_ret
          ELSE pc' = "cairo_run:return" /\ run_ret' = Err([from |-> call])
    /\ UNCHANGED <<pureVars, last_op, runArgs, cairo_runner, extract_ret, bootloader_ret>>

\* cairo_run: cairo_runner.initialize(allow_missing_builtins)?
Initialize ==
    /\ pc = "initialize"
    /\ RunnerCall("initialize", "run_until_pc")

\* cairo_run: cairo_runner.run_until_pc(end, hint_executor).map_err(...)?
RunUntilPc ==
    /\ pc = "run_until_pc"
    /\ RunnerCall("run_until_pc", "end_run")

\* cairo_run: cairo_runner.end_run(...)?
EndRun ==
    /\ pc = "end_run"
    /\ RunnerCall("end_run", "read_return_values")

\* cairo_run: cairo_runner.read_return_values(allow_missing_builtins)?
ReadReturnValues ==
    /\ pc = "read_return_values"
    /\ RunnerCall("read_return_values", after_read_return_values(cairo_run_config))

\* cairo_run: cairo_runner.finalize_segments()?
FinalizeSegments ==
    /\ pc = "finalize_segments"
    /\ RunnerCall("finalize_segments", after_finalize_segments(cairo_run_config))

\* cairo_run: verify_secure_runner(&cairo_runner, true, None)?
VerifySecureRunner ==
    /\ pc = "verify_secure_runner"
    /\ RunnerCall("verify_secure_runner", "relocate")

\* cairo_run: cairo_runner.relocate(relocate_mem)? and Ok(cairo_runner).
Relocate ==
    /\ pc = "relocate"
    /\ calls' = Append(calls, "relocate")
    /\ pc' = "cairo_run:return"
    /\ \E ok \in BOOLEAN :
          IF ok
          THEN /\ cairo_runner' = relocate(cairo_runner)
               /\ run_ret' = Ok(relocate(cairo_runner))
          ELSE /\ run_ret' = Err([from |-> "relocate"])
               /\ UNCHANGED cairo_runner
    /\ UNCHANGED <<pureVars, last_op, runArgs, extract_ret, bootloader_ret>>

\* cairo_run returns to a caller that is not of this module.
CairoRunReturns ==
    /\ pc = "cairo_run:return"
    /\ last_op = "cairo_run"
    /\ pc' = "idle"
    /\ UNCHANGED <<pureVars, last_op, runVars>>

\* run_bootloader_in_proof_mode: cairo_run(...)? has returned.
RunBootloaderAfterCairoRun ==
    /\ pc = "cairo_run:return"
    /\ last_op = "run_bootloader_in_proof_mode"
    /\ pc' = after_cairo_run(run_ret).pc
    /\ bootloader_ret' = after_cairo_run(run_ret).ret
    /\ UNCHANGED <<pureVars, last_op, runArgs, cairo_runner, calls, run_ret, extract_ret>>

\* extract_execution_artifacts: entry, let memory and let trace.
ExtractRelocatedTrace ==
    /\ pc = "extract_execution_artifacts"
    /\ calls' = Append(calls, "extract_execution_artifacts")
    /\ IF relocated_trace(cairo_runner).tag = "ok"
       THEN pc' = "write_encoded_memory" /\ UNCHANGED extract_ret
       ELSE pc' = "extract:return" /\ extract_ret' = Err(relocated_trace(cairo_runner).err)
    /\ UNCHANGED <<pureVars, last_op, runArgs, cairo_runner, run_ret, bootloader_ret>>

\* A call of extract_execution_artifacts that is followed by ?: on Ok the
\* next step, on Err the return of the error in its variant.
ExtractCall(call, next) ==
    /\ calls' = Append(calls, call)
    /\ \E ok \in BOOLEAN :
          IF ok
          THEN pc' = next /\ UNCHANGED extract_ret
          ELSE /\ pc' = "extract:return"
               /\ extract_ret' = Err([variant |-> ExecutionError_of(call),
                                      source |-> [from |-> call]])
    /\ UNCHANGED <<pureVars, last_op, runArgs, cairo_runner, run_ret, bootloader_ret>>

\* extract_execution_artifacts: write_encoded_memory(...).map_err(EncodeMemory)?
WriteEncodedMemory ==
    /\ pc = "write_encoded_memory"
    /\ ExtractCall("write_encoded_memory", "write_encoded_trace")

\* extract_execution_artifacts: write_encoded_trace(...).map_err(EncodeTrace)?
WriteEncodedTrace ==
    /\ pc = "write_encoded_trace"
    /\ ExtractCall("write_encoded_trace", "get_air_public_input")

\* extract_execution_artifacts: cairo_runner.get_air_public_input()?
GetAirPublicInput ==
    /\ pc = "get_air_public_input"
    /\ ExtractCall("get_air_public_input", "PublicInput::try_from")

\* extract_execution_artifacts: PublicInput::try_from(cairo_vm_public_input)?
PublicInputTryFrom ==
    /\ pc = "PublicInput::try_from"
    /\ ExtractCall("PublicInput::try_from", "get_air_private_input")

\* extract_execution_artifacts: get_air_private_input() and Ok(ExecutionArtifacts {..}).
GetAirPrivateInput ==
    /\ pc = "get_air_private_input"
    /\ calls' = Append(calls, "get_air_private_input")
    /\ extract_ret' = Ok(ExecutionArtifacts(cairo_runner))
    /\ pc' = "extract:return"
    /\ UNCHANGED <<pureVars, last_op, runArgs, cairo_runner, run_ret, bootloader_ret>>

\* extract_execution_artifacts returns: to the caller of this module, or as
\* the last expression of run_bootloader_in_proof_mode.
ExtractReturns ==
    /\ pc = "extract:return"
    /\ pc' = "idle"
    /\ bootloader_ret' = IF last_op = "run_bootloader_in_proof_mode"
                          THEN extract_ret ELSE bootloader_ret
    /\ UNCHANGED <<pureVars, last_op, runArgs, cairo_runner, calls, run_ret, extract_ret>>

\* make_bootloader_tasks(programs, pies), whole.
MakeBootloaderTasks(progs, ps) ==
    /\ NotCalled
    /\ last_op' = "make_bootloader_tasks"
    /\ programs' = progs
    /\ pies' = ps
    /\ tasks' = make_bootloader_tasks(progs, ps)
    /\ UNCHANGED <<overflow_checks, pc, nb_steps, verifier, friLocals, prover_parameters,
                   convVars, runVars>>

Next ==
    \/ NotCalled /\ \E n \in StepCounts, v \in Verifiers : GenerateProverParameters(n, v)
    \/ DefaultComputeFriParameters
    \/ L1ComputeFriParameters
    \/ ComputeFriSteps
    \/ ReturnProverParameters
    \/ NotCalled /\ \E progs \in SeqsUpTo(Buffers, MaxBuffers),
                        ps \in SeqsUpTo(Buffers, MaxBuffers) :
                         MakeBootloaderTasks(progs, ps)
    \/ NotCalled /\ \E l \in Layouts : LayoutToString(l)
    \/ NotCalled /\ \E s \in StrInputs : LayoutFromStr(s)
    \/ LayoutFromStrOfToString
    \/ NotCalled /\ \E s \in StrInputs : VerifierFromStr(s)
    \/ NotCalled /\ \E config \in CairoRunConfigs, map \in VariableMaps :
                         CairoRun(config, map)
    \/ NotCalled /\ \E task_list \in SeqsUpTo(TaskSpecs, MaxTasks),
                        layout \in OptionLayouts, allow_missing \in OptionBools,
                        path \in OptionPaths :
                         RunBootloaderInProofMode(task_list, layout, allow_missing, path)
    \/ NotCalled /\ \E runner \in RunHandles : ExtractExecutionArtifactsOf(runner)
    \/ CairoRunnerNew
    \/ InsertVariables
    \/ Initialize
    \/ RunUntilPc
    \/ EndRun
    \/ ReadReturnValues
    \/ FinalizeSegments
    \/ VerifySecureRunner
    \/ Relocate
    \/ CairoRunReturns
    \/ RunBootloaderAfterCairoRun
    \/ ExtractRelocatedTrace
    \/ WriteEncodedMemory
    \/ WriteEncodedTrace
    \/ GetAirPublicInput
    \/ PublicInputTryFrom
    \/ GetAirPrivateInput
    \/ ExtractReturns

Spec == Init /\ [][Next]_vars


----------------------------------------------------------------------------
(* Vocabulary of the properties.                                           *)

FriDone == last_op = "generate_prover_parameters" /\ pc = "idle"
Returned == FriDone /\ prover_parameters.tag = "ok"
ReturnedFri == prover_parameters.val.stark.fri
StepCountPositive == ~U32IsZero(nb_steps)
\* The policy has computed nb_steps_log (its first statement) for a step count >= 1.
LogComputed ==
    /\ last_op = "generate_prover_parameters"
    /\ pc \notin {"DefaultFriComputer", "L1VerifierFriComputer"}
    /\ StepCountPositive

U32Le(a, b) == a.hi < b.hi \/ (a.hi = b.hi /\ a.lo <= b.lo)
\* 2^n >= x for a u32 x.
Pow2AtLeast(n, x) == n >= U32Bits \/ U32Le(x, Pow2U32(n))

U32Add(a, b) ==
    [hi |-> (a.hi + b.hi + ((a.lo + b.lo) \div Limb)) % Limb, lo |-> (a.lo + b.lo) % Limb]
RECURSIVE U32Times(_, _)
U32Times(x, k) == IF k = 0 THEN ToU32(0) ELSE U32Add(x, U32Times(x, k - 1))
\* The sum of the entries of a list, as a u32.
RECURSIVE VecSum(_)
VecSum(vec) ==
    IF vec = <<>> THEN ToU32(0)
    ELSE U32Add(U32Times(ToU32(Head(vec).count), Head(vec).elem), VecSum(Tail(vec)))

\* The entries of a list one by one, for a list no longer than an unwrapped sum makes it.
Short(vec) == \A i \in DOMAIN vec : vec[i].count <= U32Bits + 4
RECURSIVE Entries(_)
Entries(vec) ==
    IF vec = <<>> THEN <<>>
    ELSE [i \in 1..Head(vec).count |-> Head(vec).elem] \o Entries(Tail(vec))
Is(vec, entries) == Short(vec) /\ Entries(vec) = entries

----------------------------------------------------------------------------
(* C1 (stated as claimed): a call of generate_prover_parameters with a     *)
(* step count >= 1 returns a value for every verifier, and neither         *)
(* nb_steps_log + 4 - last_layer_degree_bound_log nor, under L1,           *)
(* nb_steps_log - ceil_log2(64) goes below zero.                           *)
C1_TotalForPositiveStepCount ==
    (FriDone /\ StepCountPositive) =>
        /\ prover_parameters.tag = "ok"
        /\ nb_steps_log + 4 >= last_layer_degree_bound_log
        /\ (verifier = "L1" => nb_steps_log >= 6)

(* C2 (stated as claimed): the parameters returned for a step count >= 1   *)
(* satisfy ceil_log2(step_count) + 4 = ceil_log2(last_layer_degree_bound)  *)
(* + the sum of fri_step_list, exactly (not modulo 2^32).                  *)
C2_StoneIdentity ==
    (Returned /\ StepCountPositive) =>
        LET lldb_log == ceil_log2(ToU32(ReturnedFri.last_layer_degree_bound))
        IN  /\ ceil_log2(nb_steps) + 4 >= lldb_log
            /\ VecSum(ReturnedFri.fri_step_list) = ToU32(ceil_log2(nb_steps) + 4 - lldb_log)

(* C3: for a step count x >= 1 the logarithm the policy computed is the    *)
(* smallest n with 2^n >= x: 0 for 1, k for 2^k, 10 for 1000; and the      *)
(* logarithm of the default policy's bound 64 is 6.                        *)
C3_CeilLog2Smallest ==
    LogComputed =>
        /\ Pow2AtLeast(nb_steps_log, nb_steps)
        /\ (nb_steps_log > 0 => ~Pow2AtLeast(nb_steps_log - 1, nb_steps))
        /\ \A k \in 0..(U32Bits - 1) : nb_steps = Pow2U32(k) => nb_steps_log = k
        /\ (nb_steps = ToU32(1000) => nb_steps_log = 10)
        /\ (pc \in {"compute_fri_steps", "return"} /\ verifier # "L1"
               => last_layer_degree_bound_log = 6)

C3_Witness ==
    LogComputed /\ nb_steps = ToU32(1000) /\ nb_steps_log = 10

(* C4: whenever compute_fri_steps returns, with sum the u32 value of       *)
(* nb_steps_log + 4 - last_layer_degree_bound_log, the list it returns is  *)
(* floor(sum / max_step) entries max_step and then one entry sum mod       *)
(* max_step iff that is not zero: every entry is in 1..max_step, only the  *)
(* last may be below max_step, and the entries add up to sum.              *)
C4_FriStepsShape ==
    steps_ret.tag = "ok" =>
        LET list == steps_ret.val
            total == nb_steps_log + 4
            sum == IF total >= last_layer_degree_bound_log
                   THEN ToU32(total - last_layer_degree_bound_log)
                   ELSE [hi |-> Limb - 1,
                         lo |-> Limb - (last_layer_degree_bound_log - total)]
        IN  /\ \A i \in DOMAIN list :
                  /\ list[i].elem \in 1..max_step_value
                  /\ list[i].count >= 1
                  /\ list[i].elem < max_step_value => (i = Len(list) /\ list[i].count = 1)
            /\ VecSum(list) = sum
            /\ total >= last_layer_degree_bound_log =>
                  LET s == total - last_layer_degree_bound_log
                  IN  Is(list, [i \in 1..(s \div max_step_value) |-> max_step_value]
                                  \o (IF s % max_step_value # 0
                                      THEN <<s % max_step_value>> ELSE <<>>))

C4_Witness ==
    /\ steps_ret.tag = "ok"
    /\ nb_steps_log = 15 /\ last_layer_degree_bound_log = 6 /\ max_step_value = 4
    /\ Is(steps_ret.val, <<4, 4, 4, 1>>)


(* C5: whenever the default (Stone) policy returns for a step count >= 1,  *)
(* last_layer_degree_bound is 64 and fri_step_list is                      *)
(* compute_fri_steps(ceil_log2(step_count), 6, 4): [4,4,4,1] for 32768,    *)
(* [4,4,4,4,1] for 524288, [4,4] for 768.                                  *)
C5_DefaultPolicy ==
    (Returned /\ StepCountPositive /\ verifier # "L1") =>
        /\ ReturnedFri.last_layer_degree_bound = 64
        /\ ReturnedFri.fri_step_list =
              compute_fri_steps(ceil_log2(nb_steps), 6, 4, overflow_checks).val
        /\ (nb_steps = ToU32(32768) => Is(ReturnedFri.fri_step_list, <<4, 4, 4, 1>>))
        /\ (nb_steps = ToU32(524288) => Is(ReturnedFri.fri_step_list, <<4, 4, 4, 4, 1>>))
        /\ (nb_steps = ToU32(768) => Is(ReturnedFri.fri_step_list, <<4, 4>>))

C5_Witness ==
    /\ Returned /\ verifier = "Stone" /\ nb_steps = ToU32(524288)
    /\ ReturnedFri.last_layer_degree_bound = 64
    /\ Is(ReturnedFri.fri_step_list, <<4, 4, 4, 4, 1>>)

(* C6: whenever the L1 policy returns for a step count >= 1,               *)
(* last_layer_degree_bound is 32 when ceil_log2(step_count) - 6 is odd and *)
(* 64 otherwise, and fri_step_list is one entry 0 followed by              *)
(* compute_fri_steps(ceil_log2(step_count), ceil_log2(bound), 2):          *)
(* [0,2,2,2,2,2,2,2] with 32 for 32768, [0,2,2,2,2,2,2,2,2,2] with 32 for  *)
(* 524288, [0,2,2,2,2] with 64 for 768.                                    *)
C6_L1Policy ==
    (Returned /\ StepCountPositive /\ verifier = "L1") =>
        LET fri == ReturnedFri
            odd == (ceil_log2(nb_steps) + 6) % 2 = 1
        IN  /\ fri.last_layer_degree_bound = (IF odd THEN 32 ELSE 64)
            /\ fri.fri_step_list =
                  <<[elem |-> 0, count |-> 1]>> \o
                  compute_fri_steps(ceil_log2(nb_steps),
                                    ceil_log2(ToU32(fri.last_layer_degree_bound)),
                                    2, overflow_checks).val
            /\ (nb_steps = ToU32(32768) =>
                   /\ Is(fri.fri_step_list, <<0, 2, 2, 2, 2, 2, 2, 2>>)
                   /\ fri.last_layer_degree_bound = 32)
            /\ (nb_steps = ToU32(524288) =>
                   /\ Is(fri.fri_step_list, <<0, 2, 2, 2, 2, 2, 2, 2, 2, 2>>)
                   /\ fri.last_layer_degree_bound = 32)
            /\ (nb_steps = ToU32(768) =>
                   /\ Is(fri.fri_step_list, <<0, 2, 2, 2, 2>>)
                   /\ fri.last_layer_degree_bound = 64)

C6_Witness ==
    /\ Returned /\ verifier = "L1" /\ nb_steps = ToU32(32768)
    /\ ReturnedFri.last_layer_degree_bound = 32
    /\ Is(ReturnedFri.fri_step_list, <<0, 2, 2, 2, 2, 2, 2, 2>>)

(* C7: every FriParameters produced for a step count >= 1 has a            *)
(* last_layer_degree_bound that is a power of two, and under the L1        *)
(* verifier its fri_step_list starts with exactly one 0 and every other    *)
(* entry is 1 or 2.                                                        *)
C7_FriParametersInvariant ==
    (Returned /\ StepCountPositive) =>
        LET fri == ReturnedFri
            list == fri.fri_step_list
        IN  /\ \E k \in 0..(U32Bits - 1) : fri.last_layer_degree_bound = 2^k
            /\ verifier = "L1" =>
                  /\ Len(list) >= 1
                  /\ list[1] = [elem |-> 0, count |-> 1]
                  /\ \A i \in 2..Len(list) : list[i].elem \in {1, 2} /\ list[i].count >= 1

C7_Witness ==
    /\ Returned /\ verifier = "L1" /\ StepCountPositive
    /\ ReturnedFri.last_layer_degree_bound = 32
    /\ Len(ReturnedFri.fri_step_list) >= 2

(* C8: whenever generate_prover_parameters returns, the value is           *)
(* {field: "PrimeField0", stark: {fri: F, log_n_cosets: 4},                *)
(* use_extension_field: false}, F has n_queries 18 and proof_of_work_bits  *)
(* 24, and F is what the L1 policy computed (steps of at most 2 behind a   *)
(* leading 0) when the verifier is L1 and what the default policy computed *)
(* (bound 64, steps of at most 4) for any other verifier.                  *)
C8_ProverParameters ==
    Returned =>
        LET p == prover_parameters.val
            F == p.stark.fri
        IN  /\ DOMAIN p = {"field", "stark", "use_extension_field"}
            /\ p.field = "PrimeField0"
            /\ DOMAIN p.stark = {"fri", "log_n_cosets"}
            /\ p.stark.log_n_cosets = 4
            /\ p.use_extension_field = FALSE
            /\ F.n_queries = 18
            /\ F.proof_of_work_bits = 24
            /\ F.last_layer_degree_bound = last_layer_degree_bound
            /\ IF verifier = "L1"
               THEN /\ max_step_value = 2
                    /\ F.fri_step_list = <<[elem |-> 0, count |-> 1]>> \o steps_ret.val
               ELSE /\ max_step_value = 4
                    /\ F.last_layer_degree_bound = 64
                    /\ F.fri_step_list = steps_ret.val

C8_Witness ==
    /\ Returned /\ verifier = "L1" /\ nb_steps = ToU32(768)
    /\ prover_parameters.val.field = "PrimeField0"
    /\ prover_parameters.val.stark.fri.n_queries = 18
    /\ Is(prover_parameters.val.stark.fri.fri_step_list, <<0, 2, 2, 2, 2>>)

----------------------------------------------------------------------------
TasksDone == last_op = "make_bootloader_tasks"
AllParse ==
    /\ \A i \in DOMAIN programs : programs[i].content = "program"
    /\ \A j \in DOMAIN pies : pies[j].content = "pie"

(* C9: when every buffer parses, make_bootloader_tasks returns             *)
(* len(programs) + len(pies) TaskSpecs: the i-th is the Program task of    *)
(* programs[i], the (len(programs) + j)-th the Pie task of pies[j].        *)
C9_TasksInInputOrder ==
    (TasksDone /\ AllParse) =>
        /\ tasks.tag = "ok"
        /\ Len(tasks.val) = Len(programs) + Len(pies)
        /\ \A i \in DOMAIN programs :
              tasks.val[i] =
                  [task |-> [variant |-> "Program",
                             payload |-> [image |-> programs[i].id, entrypoint |-> "main"]]]
        /\ \A j \in DOMAIN pies :
              tasks.val[Len(programs) + j] =
                  [task |-> [variant |-> "Pie", payload |-> [image |-> pies[j].id]]]

C9_Witness ==
    /\ TasksDone /\ AllParse /\ tasks.tag = "ok"
    /\ Len(programs) = 2 /\ programs[1] # programs[2] /\ Len(pies) >= 1
    /\ Len(tasks.val) = Len(programs) + Len(pies)

(* C10: when some buffer does not parse, make_bootloader_tasks returns an  *)
(* error and no task list at all; the error is the Program variant when    *)
(* the first buffer that fails is a program buffer (so whenever a program  *)
(* buffer fails) and the Pie variant when it is a PIE buffer.              *)
C10_AllOrNothing ==
    (TasksDone /\ ~AllParse) =>
        /\ tasks.tag = "err"
        /\ DOMAIN tasks = {"tag", "err"}
        /\ tasks.err.variant =
              (IF \E i \in DOMAIN programs : programs[i].content # "program"
               THEN "Program" ELSE "Pie")

C10_Witness ==
    /\ TasksDone /\ tasks.tag = "err" /\ tasks.err.variant = "Pie"
    /\ Len(programs) >= 1 /\ Len(pies) = 2
    /\ pies[1].content = "pie" /\ pies[2].content # "pie"


----------------------------------------------------------------------------
\* The steps a returned list holds after the mandatory leading 0 of the L1 policy.
EmittedSteps ==
    IF verifier = "L1" THEN Tail(ReturnedFri.fri_step_list) ELSE ReturnedFri.fri_step_list
PolicyMaxStep == IF verifier = "L1" THEN 2 ELSE 4
ReturnedBoundLog == ceil_log2(ToU32(ReturnedFri.last_layer_degree_bound))
NoUnderflow ==
    /\ ceil_log2(nb_steps) + 4 >= ReturnedBoundLog
    /\ verifier = "L1" => ceil_log2(nb_steps) >= 6
U32ToInt(x) == x.hi * Limb + x.lo
Distance(a, b) == IF a >= b THEN a - b ELSE b - a

(* C16 (stated as claimed, on the step counts none of whose subtractions   *)
(* underflows): the sum of the emitted fri_step_list multiplied by the     *)
(* policy's max step, plus ceil_log2(last_layer_degree_bound), is within   *)
(* the max step of ceil_log2(step_count) + 4.                              *)
C16_SumTimesMaxStep ==
    (Returned /\ StepCountPositive /\ NoUnderflow) =>
        Distance(U32ToInt(VecSum(EmittedSteps)) * PolicyMaxStep + ReturnedBoundLog,
                 ceil_log2(nb_steps) + 4) <= PolicyMaxStep

(* C16 (amended): whenever a policy returns for a step count >= 1, the sum *)
(* of the emitted fri_step_list itself, not multiplied by the max step,    *)
(* plus ceil_log2(last_layer_degree_bound) equals ceil_log2(step_count) +  *)
(* 4 in u32 arithmetic: exactly when ceil_log2(step_count) + 4 is at least *)
(* ceil_log2(last_layer_degree_bound), modulo 2^32 otherwise.              *)
C16_SumIdentity ==
    (Returned /\ StepCountPositive) =>
        /\ U32Add(ToU32(ReturnedBoundLog), VecSum(EmittedSteps))
              = ToU32(ceil_log2(nb_steps) + 4)
        /\ ceil_log2(nb_steps) + 4 >= ReturnedBoundLog =>
              /\ Short(EmittedSteps)
              /\ U32ToInt(VecSum(EmittedSteps)) + ReturnedBoundLog = ceil_log2(nb_steps) + 4

C16_Witness ==
    /\ Returned /\ verifier = "Stone" /\ nb_steps = ToU32(32768)
    /\ U32ToInt(VecSum(EmittedSteps)) = 13
    /\ ReturnedBoundLog = 6

(* C17: whenever the L1 policy returns for a step count >= 1, the parity   *)
(* adjustment has made ceil_log2(step_count) + 4 -                         *)
(* ceil_log2(last_layer_degree_bound) even, no remainder entry is emitted, *)
(* and every entry after the leading 0 is 2: the last step is never 1.     *)
C17_L1LastStepNeverOne ==
    (Returned /\ StepCountPositive /\ verifier = "L1") =>
        LET list == ReturnedFri.fri_step_list
        IN  /\ (ceil_log2(nb_steps) + 4 + ReturnedBoundLog) % 2 = 0
            /\ Len(list) >= 1
            /\ list[1] = [elem |-> 0, count |-> 1]
            /\ \A i \in 2..Len(list) : list[i].elem = 2
            /\ list[Len(list)].elem # 1

C17_Witness ==
    /\ Returned /\ verifier = "L1" /\ nb_steps = ToU32(524288)
    /\ ReturnedFri.last_layer_degree_bound = 32
    /\ Is(ReturnedFri.fri_step_list, <<0, 2, 2, 2, 2, 2, 2, 2, 2, 2>>)


----------------------------------------------------------------------------
\* The name the data model gives each layout.
LayoutName(l) ==
    CASE l = "Plain" -> "plain"
      [] l = "Small" -> "small"
      [] l = "Dex" -> "dex"
      [] l = "Recursive" -> "recursive"
      [] l = "Starknet" -> "starknet"
      [] l = "RecursiveLargeOutput" -> "recursive_large_output"
      [] l = "AllCairo" -> "all_cairo"
      [] l = "AllSolidity" -> "all_solidity"
      [] l = "StarknetWithKeccak" -> "starknet_with_keccak"

(* C14: to_string gives each of the nine layouts its exact lowercase name, *)
(* from_str of that string gives the layout back, each name is the name of *)
(* one layout only, and from_str of a string that is not one of the nine   *)
(* names fails.                                                            *)
C14_LayoutRoundTrip ==
    /\ (last_op = "Layout::to_string" => conv_str = LayoutName(conv_layout))
    /\ (last_op = "Layout::from_str" /\ conv_layout # "none" =>
            conv_ret = [tag |-> "ok", val |-> conv_layout])
    /\ (last_op = "Layout::from_str" =>
            /\ conv_ret.tag = "ok" <=> (\E l \in Layouts : conv_str = LayoutName(l))
            /\ conv_ret.tag = "ok" =>
                  \A l \in Layouts : (conv_str = LayoutName(l)) <=> (l = conv_ret.val))

C14_Witness ==
    /\ last_op = "Layout::from_str"
    /\ conv_layout = "StarknetWithKeccak"
    /\ conv_str = "starknet_with_keccak"
    /\ conv_ret = [tag |-> "ok", val |-> "StarknetWithKeccak"]

(* C15: Verifier::from_str gives Stone for "stone" and L1 for "l1", and an *)
(* error for every other string, "L1" and "Stone" included.                *)
C15_VerifierFromStr ==
    last_op = "Verifier::from_str" =>
        /\ (conv_str = "stone" => conv_ret = [tag |-> "ok", val |-> "Stone"])
        /\ (conv_str = "l1" => conv_ret = [tag |-> "ok", val |-> "L1"])
        /\ (conv_str \notin {"stone", "l1"} => conv_ret.tag = "err")

C15_Witness ==
    /\ last_op = "Verifier::from_str"
    /\ conv_str = "L1"
    /\ conv_ret.tag = "err"


----------------------------------------------------------------------------
(* Vocabulary of the properties on runs and extraction.                    *)

CallsSet == {calls[i] : i \in 1..Len(calls)}
Count(call) == Cardinality({i \in 1..Len(calls) : calls[i] = call})
IsPrefix(p, q) == Len(p) <= Len(q) /\ p = SubSeq(q, 1, Len(p))

InBootloaderRun == last_op = "run_bootloader_in_proof_mode"
\* Extraction has been entered, or is about to execute its first statement.
ExtractionInvoked ==
    pc = "extract_execution_artifacts" \/ "extract_execution_artifacts" \in CallsSet
ExtractionReturned == extract_ret.tag # "none"
TraceAbsent == cairo_runner.tag = "runner" /\ cairo_runner.relocated_trace.tag = "None"

\* The four fallible steps of extraction, in the order of the claim, and
\* the variant that names each.
ExtractSteps ==
    <<"write_encoded_memory", "write_encoded_trace", "get_air_public_input",
      "PublicInput::try_from">>
StepVariant ==
    <<"EncodeMemory", "EncodeTrace", "GeneratePublicInput", "SerializePublicInput">>
\* The steps of extraction that were executed, in order.
ExtractStepsRun ==
    SelectSeq(calls, LAMBDA c : c \in {ExtractSteps[k] : k \in 1..Len(ExtractSteps)})

C12_AtomicPhaseTagged ==
    ExtractionReturned =>
        /\ extract_ret.tag \in {"ok", "err"}
        /\ extract_ret.tag = "ok" =>
              /\ ExtractStepsRun = ExtractSteps
              /\ DOMAIN extract_ret.val = {"public_input", "private_input", "memory", "trace"}
        /\ extract_ret.tag = "err" =>
              /\ DOMAIN extract_ret = {"tag", "err"}
              /\ ~TraceAbsent =>
                    \E k \in 1..Len(ExtractSteps) :
                        /\ ExtractStepsRun = SubSeq(ExtractSteps, 1, k)
                        /\ calls[Len(calls)] = ExtractSteps[k]
                        /\ extract_ret.err.source = [from |-> ExtractSteps[k]]
                        /\ extract_ret.err.variant = StepVariant[k]

C12_Witness ==
    /\ last_op = "extract_execution_artifacts"
    /\ pc = "idle"
    /\ extract_ret.tag = "err"
    /\ extract_ret.err.variant = "GeneratePublicInput"
    /\ ExtractStepsRun = SubSeq(ExtractSteps, 1, 3)

(* C13: run_bootloader_in_proof_mode runs the VM once and never again; a   *)
(* failed run is returned as RunFailed carrying the failure and extraction *)
(* is not invoked; after a run that succeeded, extraction is invoked once, *)
(* on the run handle the run returned, and its result is the result of the *)
(* call.                                                                   *)
C13_RunOnceThenExtract ==
    InBootloaderRun =>
        /\ Count("CairoRunner::new") <= 1
        /\ Count("run_until_pc") <= 1
        /\ Count("extract_execution_artifacts") <= 1
        /\ run_ret.tag = "err" => ~ExtractionInvoked
        /\ pc = "idle" =>
              /\ Count("CairoRunner::new") = 1
              /\ run_ret.tag \in {"ok", "err"}
              /\ run_ret.tag = "err" =>
                    bootloader_ret = [tag |-> "err",
                                      err |-> [variant |-> "RunFailed",
                                               source |-> run_ret.err]]
              /\ run_ret.tag = "ok" =>
                    /\ Count("extract_execution_artifacts") = 1
                    /\ cairo_runner = run_ret.val
                    /\ ExtractionReturned
                    /\ bootloader_ret = extract_ret

C13_Witness ==
    /\ InBootloaderRun
    /\ pc = "idle"
    /\ run_ret.tag = "ok"
    /\ extract_ret.tag = "err"
    /\ bootloader_ret = extract_ret

(* C18: in run_bootloader_in_proof_mode, when the runner is about to be    *)
(* initialized its scopes hold bootloader_input with the caller's tasks in *)
(* their order, one empty Plain placeholder per task, program hash 0 and   *)
(* no supported verifier hash; initialization never precedes injection.    *)
C18_ScopesBeforeInitialize ==
    InBootloaderRun =>
        /\ pc = "initialize" =>
              \E e \in cairo_runner.exec_scopes :
                  /\ e.key = "bootloader_input"
                  /\ e.value.simple_bootloader_input.tasks = bootloader_args.tasks
                  /\ Len(e.value.packed_outputs) = Len(bootloader_args.tasks)
                  /\ \A i \in 1..Len(e.value.packed_outputs) :
                        e.value.packed_outputs[i] = [tag |-> "Plain", val |-> <<>>]
                  /\ e.value.bootloader_config.simple_bootloader_program_hash = 0
                  /\ e.value.bootloader_config.supported_cairo_verifier_program_hashes = <<>>
        /\ \A i \in 1..Len(calls) :
              calls[i] = "initialize" => \E j \in 1..(i - 1) : calls[j] = "insert_box"

C18_Witness ==
    /\ InBootloaderRun
    /\ pc = "initialize"
    /\ Len(bootloader_args.tasks) = 2
    /\ bootloader_args.tasks[1].task.variant = "Pie"
    /\ bootloader_args.tasks[2].task.variant = "Program"
    /\ \E e \in cairo_runner.exec_scopes :
          e.key = "bootloader_input" /\ Len(e.value.packed_outputs) = 2

\* The phases of cairo_run that were executed, in order.
PhasesRun ==
    SelectSeq(calls, LAMBDA c : c \in
        {"CairoRunner::new", "insert_box", "initialize", "run_until_pc", "end_run",
         "read_return_values", "finalize_segments", "verify_secure_runner", "relocate"})
\* The security check is on: asked for, or left unset outside proof mode.
SecureRunOn ==
    \/ cairo_run_config.secure_run = [tag |-> "Some", val |-> TRUE]
    \/ cairo_run_config.secure_run.tag = "None" /\ ~cairo_run_config.proof_mode
\* The order of the phases for the configuration of the call.
PhaseOrder ==
    <<"CairoRunner::new", "insert_box", "initialize", "run_until_pc", "end_run",
      "read_return_values">>
        \o (IF cairo_run_config.proof_mode THEN <<"finalize_segments">> ELSE <<>>)
        \o (IF SecureRunOn THEN <<"verify_secure_runner">> ELSE <<>>)
        \o <<"relocate">>

(* C19: the phases of cairo_run are executed in the fixed order, with      *)
(* finalize_segments only in proof mode and verify_secure_runner only when *)
(* the security check is on; the phase that fails is the last one          *)
(* executed; a runner is returned only after every phase, relocation last. *)
(* In run_bootloader_in_proof_mode the security check is never executed.   *)
C19_PhaseOrder ==
    last_op \in {"cairo_run", "run_bootloader_in_proof_mode"} =>
        /\ IsPrefix(PhasesRun, PhaseOrder)
        /\ run_ret.tag = "err" =>
              /\ PhasesRun # <<>>
              /\ PhasesRun[Len(PhasesRun)] = run_ret.err.from
        /\ run_ret.tag = "ok" => PhasesRun = PhaseOrder
        /\ InBootloaderRun => "verify_secure_runner" \notin CallsSet

C19_Witness ==
    /\ InBootloaderRun
    /\ run_ret.tag = "ok"
    /\ PhasesRun = <<"CairoRunner::new", "insert_box", "initialize", "run_until_pc",
                     "end_run", "read_return_values", "finalize_segments", "relocate">>

====
